---- MODULE Spec2Model ----
(***************************************************************************)
(* A model of the USB HID barcode scanner server: the session loop of      *)
(* src/src/server.rs (connect_to_device), the device listing of            *)
(* src/src/tools.rs (refresh_devices, get_product_name) and the device     *)
(* identifiers of src/src/devices.rs.                                      *)
(***************************************************************************)
EXTENDS Integers, Sequences, FiniteSets, TLC

VARIABLES
    registry,       \* hidapi's device list, as of the last successful refresh
    pc,             \* where connect_to_device is: "connect", "read", "crashed", "idle"
    handles,        \* number of live HidDevice values
    count_bytes_read_from_current_report,
    trace,          \* the I/O operations and log events of the last step, in order
    read_failures,  \* failed reads on the current handle since its last good read
    report_chunks,  \* length and terminator of each chunk of the logical report
                    \* being read, or just ended, on the current connection
    target,         \* the UsbDeviceIdentifier looked for in the device list
    connected_devices,  \* the last value returned by refresh_devices
    matched         \* "none", or the outcome of the last match check: "yes" / "no"

vars == <<registry, pc, handles, count_bytes_read_from_current_report, trace,
          read_failures, report_chunks, target, connected_devices, matched>>

-----------------------------------------------------------------------------
(* Bounds of the model *)

\* at most this many devices in one enumeration
MaxDevices == 2
\* reads are only issued while the accumulator stays within this many bytes
MaxAcc == 110

-----------------------------------------------------------------------------
(* Program constants *)

VID_INTERMEC == 1662
PID_SG20 == 2057
INTERMEC_SG20 == [vid |-> VID_INTERMEC, pid |-> PID_SG20, sn |-> ""]
BUFFER_SIZE == 64 * 4
READ_ERROR_SLEEP_SECS == 3
OPEN_ERROR_SLEEP_SECS == 5

\* a vendor id and a product id that are not the scanner's
VID_OTHER == VID_INTERMEC + 1
PID_OTHER == PID_SG20 + 1

-----------------------------------------------------------------------------
(* Options: None is <<>>, Some(x) is <<x>> *)

None == <<>>
Some(x) == <<x>>
is_none(o) == o = <<>>

-----------------------------------------------------------------------------
(* Events of a step *)

Ev(op, msg, arg, text) == [op |-> op, msg |-> msg, arg |-> arg, text |-> text]
Io(op, msg, arg) == Ev(op, msg, arg, <<>>)
Info(msg, arg) == Ev("info", msg, arg, <<>>)
Debug(msg, arg) == Ev("debug", msg, arg, <<>>)

Has(t, op, msg) == \E i \in DOMAIN t : t[i].op = op /\ t[i].msg = msg
CountOp(t, opset) == Cardinality({i \in DOMAIN t : t[i].op \in opset})

-----------------------------------------------------------------------------
(* Device identifiers: src/src/devices.rs *)

VidPid(vid, pid) == [tag |-> "VidPid", vid |-> vid, pid |-> pid, sn |-> ""]
VidPidSn(vid, pid, sn) == [tag |-> "VidPidSn", vid |-> vid, pid |-> pid, sn |-> sn]

\* #[derive(Eq, PartialEq)]: same variant and all fields equal
IdEq(a, b) ==
    /\ a.tag = b.tag
    /\ a.vid = b.vid
    /\ a.pid = b.pid
    /\ (a.tag = "VidPidSn" => a.sn = b.sn)

-----------------------------------------------------------------------------
(* The attached devices hidapi can report *)

SerialStrings == {"", "SN1", "SN2"}

DeviceInfo(v, p, s) == [vendor_id |-> v, product_id |-> p, serial_number |-> s]

DeviceInfos ==
    {DeviceInfo(VID_INTERMEC, PID_SG20, s) : s \in {None, Some(""), Some("SN1")}}
    \cup {DeviceInfo(VID_OTHER, PID_SG20, Some("SN1"))}

RECURSIVE SeqsUpTo(_, _)
SeqsUpTo(S, n) ==
    IF n = 0 THEN {<<>>}
    ELSE LET shorter == SeqsUpTo(S, n - 1)
         IN  shorter \cup {Append(s, x) : s \in {q \in shorter : Len(q) = n - 1}, x \in S}

Registries == SeqsUpTo(DeviceInfos, MaxDevices)

Identifiers ==
    {VidPid(v, p) : v \in {VID_INTERMEC, VID_OTHER}, p \in {PID_SG20, PID_OTHER}}
    \cup {VidPidSn(v, p, s) : v \in {VID_INTERMEC}, p \in {PID_SG20, PID_OTHER},
                              s \in SerialStrings}

-----------------------------------------------------------------------------
(* src/src/tools.rs *)

\* device_id as it would be if an empty serial number counted as none
device_id_empty_is_none(device) ==
    IF is_none(device.serial_number) \/ device.serial_number = Some("")
    THEN VidPid(device.vendor_id, device.product_id)
    ELSE VidPidSn(device.vendor_id, device.product_id, device.serial_number[1])

\* the identifier refresh_devices builds for one listed device
device_id(device) ==
    IF is_none(device.serial_number)
    THEN VidPid(device.vendor_id, device.product_id)
    ELSE VidPidSn(device.vendor_id, device.product_id, device.serial_number[1])

\* refresh_devices: one identifier per device of hidapi.devices(), in order
refresh_devices(devices) == [i \in 1..Len(devices) |-> device_id(devices[i])]

\* the device-match check: the identifier is one of the listed ones
matches(listed, id) == \E i \in 1..Len(listed) : IdEq(listed[i], id)

-----------------------------------------------------------------------------
(* What a read can return: the first n bytes of buf *)

T_CONTINUE == <<0, 40, 1>>
T_END == <<0, 40, 0>>
T_END_PAYLOAD == <<0, 1, 0>>
T_OTHER == <<13, 10, 0>>
Terminators == {T_CONTINUE, T_END, T_END_PAYLOAD, T_OTHER}

\* AIM identifiers "]C1" and "]E0", and three bytes that are no AIM identifier
SYM_C1 == <<93, 67, 49>>
SYM_E0 == <<93, 69, 48>>
SYM_NONE == <<48, 49, 50>>
Symbologies == {SYM_C1, SYM_NONE}

ReadLens == {0, 2, 3, 4, 40, 50, 64}

\* n bytes: the identifier at offset [2,5), the terminator in the last 3 bytes
\* (which wins where the two overlap), zeroes elsewhere
Chunk(n, sym, term) ==
    [i \in 1..n |->
        IF n >= 3 /\ i > n - 3 THEN term[i - (n - 3)]
        ELSE IF i \in 3..5 THEN sym[i - 2]
        ELSE 0]

Chunks ==
    {Chunk(n, s, t) : n \in {m \in ReadLens : m <= BUFFER_SIZE},
                      s \in Symbologies, t \in Terminators}

\* &bytes[from..to] (0-based, to exclusive)
Slice(bytes, from, to) == [i \in 1..(to - from) |-> bytes[from + i]]

-----------------------------------------------------------------------------
(* src/src/server.rs: what connect_to_device does with one successful read *)

\* bytes[(bytes_read_size - 3)..bytes_read_size]
terminator(bytes) == Slice(bytes, Len(bytes) - 3, Len(bytes))

\* symbology as it would be if it took the first three bytes of the chunk
symbology_from_start(bytes) == Slice(bytes, 0, 3)

\* bytes[2..=4]
symbology(bytes) == Slice(bytes, 2, 5)

\* decode_aim_symbology: the symbology an AIM identifier names, by a fixed table
decode_aim_symbology(s) ==
    IF s = SYM_C1 THEN [name |-> "Code128", code |-> <<>>]
    ELSE IF s = SYM_E0 THEN [name |-> "EAN", code |-> <<>>]
    ELSE IF s[1] = 93 /\ s[2] = 100 THEN [name |-> "DataMatrix", code |-> <<>>]
    ELSE [name |-> "Unknown", code |-> s]

\* debug!("Symbology {:02X?}={:?} is {:?}.", ...): the bytes, and what they decode
\* to (an Unknown shows the bytes it carries)
SymbologyEvent(s) ==
    LET d == decode_aim_symbology(s)
    IN  Ev("debug", "Symbology", s \o d.code, <<d.name>>)

\* the slice of line 44 is out of range (or its start underflows) below 3 bytes
TerminatorPanics(bytes) == Len(bytes) < 3

\* the slice of line 51 is out of range below 5 bytes
SymbologyPanics(bytes) == Len(bytes) < 5

\* match terminator { ... }: the new accumulator and the events logged
\* MatchTerminator as it would be if the [0, 40, 0] arm counted the final
\* chunk as the [0, 1, 0] arm does
MatchTerminatorCountsFinal(t, n, count) ==
    IF t = <<0, 40, 1>> THEN
        [count |-> count + n,
         events |-> <<Debug("bytes read so far.", <<count + n>>)>>]
    ELSE IF t \in {<<0, 40, 0>>, <<0, 1, 0>>} THEN
        [count |-> 0,
         events |-> <<Info("Finished reading HID report.", <<>>),
                      Info("bytes read in total.", <<count + n>>)>>]
    ELSE
        [count |-> count + n,
         events |-> <<Info("Unknown termination bytes", t),
                      Info("bytes read (from unknown report size).", <<count + n>>)>>]

\* MatchTerminator as it would be if an unknown terminator started the count
\* again
MatchTerminatorResetsOnUnknown(t, n, count) ==
    IF t = <<0, 40, 1>> THEN
        [count |-> count + n,
         events |-> <<Debug("bytes read so far.", <<count + n>>)>>]
    ELSE IF t = <<0, 40, 0>> THEN
        [count |-> 0,
         events |-> <<Info("Finished reading HID report.", <<>>),
                      Info("bytes read in total.", <<count>>)>>]
    ELSE IF t = <<0, 1, 0>> THEN
        [count |-> 0,
         events |-> <<Info("Finished reading HID report.", <<>>),
                      Info("bytes read in total.", <<count + n>>)>>]
    ELSE
        [count |-> 0,
         events |-> <<Info("Unknown termination bytes", t),
                      Info("bytes read (from unknown report size).", <<count + n>>)>>]

MatchTerminator(t, n, count) ==
    IF t = <<0, 40, 1>> THEN
        [count |-> count + n,
         events |-> <<Debug("bytes read so far.", <<count + n>>)>>]
    ELSE IF t = <<0, 40, 0>> THEN
        [count |-> 0,
         events |-> <<Info("Finished reading HID report.", <<>>),
                      Info("bytes read in total.", <<count>>)>>]
    ELSE IF t = <<0, 1, 0>> THEN
        [count |-> 0,
         events |-> <<Info("Finished reading HID report.", <<>>),
                      Info("bytes read in total.", <<count + n>>)>>]
    ELSE
        [count |-> count + n,
         events |-> <<Info("Unknown termination bytes", t),
                      Info("bytes read (from unknown report size).", <<count + n>>)>>]

\* the Ok(bytes_read_size) arm: a panic ends the process
ProcessRead(bytes, count) ==
    LET received == <<Debug("Received (HEX)", bytes)>>
    IN  IF TerminatorPanics(bytes) THEN
            [panic |-> TRUE, count |-> count,
             events |-> received \o <<Io("panic", "terminator slice", <<Len(bytes)>>)>>]
        ELSE IF SymbologyPanics(bytes) THEN
            [panic |-> TRUE, count |-> count,
             events |-> received \o <<Debug("Terminator", terminator(bytes)),
                                      Io("panic", "symbology slice", <<Len(bytes)>>)>>]
        ELSE
            LET m == MatchTerminator(terminator(bytes), Len(bytes), count)
            IN  [panic |-> FALSE, count |-> m.count,
                 events |-> received \o <<Debug("Terminator", terminator(bytes)),
                                          SymbologyEvent(symbology(bytes))>>
                                    \o m.events]

-----------------------------------------------------------------------------
(* The history of the logical report, kept to state the properties *)

EndTerminators == {T_END, T_END_PAYLOAD}

ChunkInfo(bytes) ==
    [n |-> Len(bytes),
     t |-> IF Len(bytes) >= 3 THEN terminator(bytes) ELSE <<>>,
     sym |-> IF Len(bytes) >= 5 THEN <<bytes[3], bytes[4], bytes[5]>> ELSE <<>>]

ReportEnded(chunks) == chunks # <<>> /\ chunks[Len(chunks)].t \in EndTerminators

\* a chunk read after an end terminator starts the next logical report
Absorbed(chunks, bytes) ==
    IF ReportEnded(chunks) THEN <<ChunkInfo(bytes)>>
    ELSE Append(chunks, ChunkInfo(bytes))

RECURSIVE SumLen(_)
SumLen(chunks) ==
    IF chunks = <<>> THEN 0 ELSE chunks[1].n + SumLen(Tail(chunks))

-----------------------------------------------------------------------------
(* src/src/tools.rs: the device name *)

\* what get_manufacturer_string / get_product_string can return
StringQueries(s) == {[kind |-> "Ok", value |-> Some(s)],
                     [kind |-> "Ok", value |-> None],
                     [kind |-> "Err", value |-> Some("HidApiError")]}

\* name_part as it would be if a failed query gave "NA" as a missing string does
name_part_hides_error(q) ==
    IF q.kind = "Ok" /\ ~is_none(q.value) THEN q.value[1] ELSE "NA"

name_part(q) ==
    IF q.kind = "Ok" THEN (IF is_none(q.value) THEN "NA" ELSE q.value[1])
    ELSE q.value[1]

\* format!("{} {}", manufacturer part, product part)
get_product_name(m, p) == <<name_part(m), " ", name_part(p)>>

-----------------------------------------------------------------------------
(* src/src/server.rs: the steps of connect_to_device *)

\* hidapi.refresh_devices(): on success the list is re-read, on failure it is kept
RefreshOutcomes ==
    {[ok |-> TRUE, devices |-> d] : d \in Registries}
    \cup {[ok |-> FALSE, devices |-> registry]}

RefreshEvent(ok) == Io("refresh_devices", IF ok THEN "Ok" ELSE "Err", <<>>)

\* OpenErr as it would be if the loop looked for a match first and skipped the open
OpenErrWithoutOpen ==
    /\ pc = "connect"
    /\ \E r \in RefreshOutcomes :
          /\ registry' = r.devices
          /\ trace' = <<Info("Trying to connect to", <<>>),
                        RefreshEvent(r.ok),
                        Io("sleep", "secs", <<OPEN_ERROR_SLEEP_SECS>>)>>
    /\ pc' = "connect"
    /\ UNCHANGED <<handles, count_bytes_read_from_current_report, read_failures,
                   report_chunks, target, connected_devices, matched>>

\* OpenErr as it would be if a failed refresh ended the turn before open_serial
OpenErrSkipsOpenOnRefreshError ==
    /\ pc = "connect"
    /\ \E r \in RefreshOutcomes :
          /\ registry' = r.devices
          /\ trace' = <<Info("Trying to connect to", <<>>), RefreshEvent(r.ok)>>
                       \o (IF r.ok
                           THEN <<Io("open_serial", "Err", <<>>),
                                  Info("Device open error. Reconnecting in 5 seconds.", <<>>)>>
                           ELSE <<>>)
                       \o <<Io("sleep", "secs", <<OPEN_ERROR_SLEEP_SECS>>)>>
    /\ pc' = "connect"
    /\ UNCHANGED <<handles, count_bytes_read_from_current_report, read_failures,
                   report_chunks, target, connected_devices, matched>>

\* OpenErr as it would be without the sleep of line 121
OpenErrWithoutSleep ==
    /\ pc = "connect"
    /\ \E r \in RefreshOutcomes :
          /\ registry' = r.devices
          /\ trace' = <<Info("Trying to connect to", <<>>),
                        RefreshEvent(r.ok),
                        Io("open_serial", "Err", <<>>),
                        Info("Device open error. Reconnecting in 5 seconds.", <<>>)>>
    /\ pc' = "connect"
    /\ UNCHANGED <<handles, count_bytes_read_from_current_report, read_failures,
                   report_chunks, target, connected_devices, matched>>

\* one turn of the outer loop in which open_serial fails
OpenErr ==
    /\ pc = "connect"
    /\ \E r \in RefreshOutcomes :
          /\ registry' = r.devices
          /\ trace' = <<Info("Trying to connect to", <<>>),
                        RefreshEvent(r.ok),
                        Io("open_serial", "Err", <<>>),
                        Info("Device open error. Reconnecting in 5 seconds.", <<>>),
                        Io("sleep", "secs", <<OPEN_ERROR_SLEEP_SECS>>)>>
    /\ pc' = "connect"
    /\ UNCHANGED <<handles, count_bytes_read_from_current_report, read_failures,
                   report_chunks, target, connected_devices, matched>>

\* OpenOk as it would be without the info! of line 21
OpenOkWithoutConnected ==
    /\ pc = "connect"
    /\ \E r \in RefreshOutcomes :
          /\ registry' = r.devices
          /\ trace' = <<Info("Trying to connect to", <<>>),
                        RefreshEvent(r.ok),
                        Io("open_serial", "Ok", <<>>),
                        Info("Read buffer size is bytes.", <<BUFFER_SIZE>>)>>
    /\ handles' = handles + 1
    /\ count_bytes_read_from_current_report' = 0
    /\ read_failures' = 0
    /\ report_chunks' = <<>>
    /\ pc' = "read"
    /\ UNCHANGED <<target, connected_devices, matched>>

\* OpenOk as it would be if the count were declared outside the outer loop
OpenOkKeepsCount ==
    /\ pc = "connect"
    /\ \E r \in RefreshOutcomes,
          m \in StringQueries("Intermec"), p \in StringQueries("SG20") :
          /\ registry' = r.devices
          /\ trace' = <<Info("Trying to connect to", <<>>),
                        RefreshEvent(r.ok),
                        Io("open_serial", "Ok", <<>>),
                        Ev("info", "Connected to", <<>>, get_product_name(m, p)),
                        Info("Read buffer size is bytes.", <<BUFFER_SIZE>>)>>
    /\ handles' = handles + 1
    /\ read_failures' = 0
    /\ report_chunks' = <<>>
    /\ pc' = "read"
    /\ UNCHANGED <<count_bytes_read_from_current_report, target,
                   connected_devices, matched>>

\* one turn of the outer loop in which open_serial succeeds, up to the inner loop
OpenOk ==
    /\ pc = "connect"
    /\ \E r \in RefreshOutcomes,
          m \in StringQueries("Intermec"), p \in StringQueries("SG20") :
          /\ registry' = r.devices
          /\ trace' = <<Info("Trying to connect to", <<>>),
                        RefreshEvent(r.ok),
                        Io("open_serial", "Ok", <<>>),
                        Ev("info", "Connected to", <<>>, get_product_name(m, p)),
                        Info("Read buffer size is bytes.", <<BUFFER_SIZE>>)>>
    /\ handles' = handles + 1
    /\ count_bytes_read_from_current_report' = 0
    /\ read_failures' = 0
    /\ report_chunks' = <<>>
    /\ pc' = "read"
    /\ UNCHANGED <<target, connected_devices, matched>>

\* ReadOk as it would be if the next read were issued before the chunk just
\* read is processed
ReadOkPrefetch ==
    /\ pc = "read"
    /\ \E bytes \in Chunks :
          /\ count_bytes_read_from_current_report + Len(bytes) <= MaxAcc
          /\ LET r == ProcessRead(bytes, count_bytes_read_from_current_report)
             IN  /\ trace' = <<Info("Waiting for device to send data...", <<>>),
                               Io("read", "Ok", <<Len(bytes)>>),
                               Io("read", "pending", <<>>)>> \o r.events
                 /\ count_bytes_read_from_current_report' = r.count
                 /\ pc' = IF r.panic THEN "crashed" ELSE "read"
                 /\ handles' = IF r.panic THEN 0 ELSE handles
                 /\ report_chunks' = Absorbed(report_chunks, bytes)
    /\ read_failures' = 0
    /\ UNCHANGED <<registry, target, connected_devices, matched>>

\* one turn of the inner loop in which device.read returns Ok
ReadOk ==
    /\ pc = "read"
    /\ \E bytes \in Chunks :
          /\ count_bytes_read_from_current_report + Len(bytes) <= MaxAcc
          /\ LET r == ProcessRead(bytes, count_bytes_read_from_current_report)
             IN  /\ trace' = <<Info("Waiting for device to send data...", <<>>),
                               Io("read", "Ok", <<Len(bytes)>>)>> \o r.events
                 /\ count_bytes_read_from_current_report' = r.count
                 /\ pc' = IF r.panic THEN "crashed" ELSE "read"
                 /\ handles' = IF r.panic THEN 0 ELSE handles
                 /\ report_chunks' = Absorbed(report_chunks, bytes)
    /\ read_failures' = 0
    /\ UNCHANGED <<registry, target, connected_devices, matched>>

\* ReadErr as it would be without the break: the inner loop goes on reading
ReadErrWithoutBreak ==
    /\ pc = "read"
    /\ trace' = <<Info("Waiting for device to send data...", <<>>),
                  Io("read", "Err", <<>>),
                  Info("Error reading data from device. Disconnecting and connecting back in 3 seconds.", <<>>),
                  Io("sleep", "secs", <<READ_ERROR_SLEEP_SECS>>)>>
    /\ read_failures' = read_failures + 1
    /\ pc' = "read"
    /\ UNCHANGED <<registry, handles, count_bytes_read_from_current_report,
                   report_chunks, target, connected_devices, matched>>

\* ReadErr as it would be if it broke out of the inner loop at the third
\* failure in a row only
ReadErrAtThirdFailure ==
    /\ pc = "read"
    /\ read_failures' = read_failures + 1
    /\ LET gone == read_failures' >= 3
       IN  /\ trace' = <<Info("Waiting for device to send data...", <<>>),
                         Io("read", "Err", <<>>),
                         Info("Error reading data from device. Disconnecting and connecting back in 3 seconds.", <<>>)>>
                        \o (IF gone THEN <<Io("sleep", "secs", <<READ_ERROR_SLEEP_SECS>>),
                                           Io("close", "drop", <<>>)>>
                            ELSE <<>>)
           /\ handles' = IF gone THEN handles - 1 ELSE handles
           /\ report_chunks' = IF gone THEN <<>> ELSE report_chunks
           /\ pc' = IF gone THEN "connect" ELSE "read"
    /\ UNCHANGED <<registry, count_bytes_read_from_current_report,
                   target, connected_devices, matched>>

\* ReadErr as it would be if it slept as long as a failed open does
ReadErrSleepsAsOpenErr ==
    /\ pc = "read"
    /\ trace' = <<Info("Waiting for device to send data...", <<>>),
                  Io("read", "Err", <<>>),
                  Info("Error reading data from device. Disconnecting and connecting back in 3 seconds.", <<>>),
                  Io("sleep", "secs", <<OPEN_ERROR_SLEEP_SECS>>),
                  Io("close", "drop", <<>>)>>
    /\ read_failures' = read_failures + 1
    /\ handles' = handles - 1
    /\ report_chunks' = <<>>
    /\ pc' = "connect"
    /\ UNCHANGED <<registry, count_bytes_read_from_current_report,
                   target, connected_devices, matched>>

\* ReadErr as it would be if the device outlived the outer loop's turn
ReadErrKeepsHandle ==
    /\ pc = "read"
    /\ trace' = <<Info("Waiting for device to send data...", <<>>),
                  Io("read", "Err", <<>>),
                  Info("Error reading data from device. Disconnecting and connecting back in 3 seconds.", <<>>),
                  Io("sleep", "secs", <<READ_ERROR_SLEEP_SECS>>)>>
    /\ read_failures' = read_failures + 1
    /\ report_chunks' = <<>>
    /\ pc' = "connect"
    /\ UNCHANGED <<registry, handles, count_bytes_read_from_current_report,
                   target, connected_devices, matched>>

\* one turn of the inner loop in which device.read returns Err: sleep, break,
\* and the device goes out of scope
ReadErr ==
    /\ pc = "read"
    /\ trace' = <<Info("Waiting for device to send data...", <<>>),
                  Io("read", "Err", <<>>),
                  Info("Error reading data from device. Disconnecting and connecting back in 3 seconds.", <<>>),
                  Io("sleep", "secs", <<READ_ERROR_SLEEP_SECS>>),
                  Io("close", "drop", <<>>)>>
    /\ read_failures' = read_failures + 1
    /\ handles' = handles - 1
    /\ report_chunks' = <<>>
    /\ pc' = "connect"
    /\ UNCHANGED <<registry, count_bytes_read_from_current_report,
                   target, connected_devices, matched>>

Init ==
    /\ registry = <<>>
    /\ pc = "connect"
    /\ handles = 0
    /\ count_bytes_read_from_current_report = 0
    /\ trace = <<>>
    /\ read_failures = 0
    /\ report_chunks = <<>>
    /\ target = VidPid(INTERMEC_SG20.vid, INTERMEC_SG20.pid)
    /\ connected_devices = <<>>
    /\ matched = "none"

Next == OpenErr \/ OpenOk \/ ReadOk \/ ReadErr

\* the state of connect_to_device: the loop it is in, the device it holds,
\* the accumulator of the Ok(device) arm
State ==
    /\ pc \in {"connect", "read", "crashed"}
    /\ handles \in {0, 1}
    /\ count_bytes_read_from_current_report \in 0..MaxAcc
    /\ registry \in Registries

Spec == Init /\ [][Next]_vars

\* the loops run on: each step that can be taken is eventually taken
FairSpec == Spec /\ WF_vars(Next)

-----------------------------------------------------------------------------
(* The device-match check on its own: any device list, any identifier *)

\* list the attached devices and look for the target among them
CheckMatch ==
    /\ pc = "idle"
    /\ \E r \in RefreshOutcomes :
          /\ registry' = r.devices
          /\ trace' = <<Info("Refreshing devices list.", <<>>), RefreshEvent(r.ok)>>
                        \o [i \in 1..Len(registry') |-> Debug("Found a device", <<i>>)]
    /\ connected_devices' = refresh_devices(registry')
    /\ matched' = IF matches(connected_devices', target) THEN "yes" ELSE "no"
    /\ UNCHANGED <<pc, handles, count_bytes_read_from_current_report,
                   read_failures, report_chunks, target>>

InitMatch ==
    /\ registry \in Registries
    /\ target \in Identifiers
    /\ pc = "idle"
    /\ handles = 0
    /\ count_bytes_read_from_current_report = 0
    /\ trace = <<>>
    /\ read_failures = 0
    /\ report_chunks = <<>>
    /\ connected_devices = <<>>
    /\ matched = "none"

NextMatch == CheckMatch

SpecMatch == InitMatch /\ [][NextMatch]_vars

-----------------------------------------------------------------------------
(* The helper functions on their own: src/src/tools.rs get_product_name,
   src/src/device/usb.rs speed_as_str, src/src/main.rs get_speed *)

\* what a string query on an open device can return
ToolStrings == {"Intermec", "SG20", "Honeywell", "1900", "NA", ""}
ToolErrors == {"HidApiError", "HidApiErrorNotFound", "OpenHidDeviceError"}
NameQueries ==
    {[kind |-> "Ok", value |-> Some(x)] : x \in ToolStrings}
    \cup {[kind |-> "Ok", value |-> None]}
    \cup {[kind |-> "Err", value |-> Some(e)] : e \in ToolErrors}

\* rusb::Speed
Speeds == {"Unknown", "Low", "Full", "High", "Super"}

\* a &'static str, as the blanks it starts with and the rest of it
Str(pad, text) == [pad |-> pad, text |-> text]

\* usb.rs speed_as_str
speed_as_str(speed) ==
    CASE speed = "Unknown" -> Str(0, "5000 Mbps")
      [] speed = "Low" -> Str(0, "480 Mbps")
      [] speed = "Full" -> Str(0, "12 Mbps")
      [] speed = "High" -> Str(0, "1.5 Mbps")
      [] speed = "Super" -> Str(0, "(unknown)")

\* main.rs get_speed
get_speed(speed) ==
    CASE speed = "Super" -> Str(0, "5000 Mbps")
      [] speed = "High" -> Str(1, "480 Mbps")
      [] speed = "Full" -> Str(2, "12 Mbps")
      [] speed = "Low" -> Str(1, "1.5 Mbps")
      [] speed = "Unknown" -> Str(0, "(unknown)")

\* get_product_name on a device whose two string queries return m and p
GetProductName ==
    /\ pc = "idle"
    /\ \E m \in NameQueries, p \in NameQueries :
          trace' = <<Ev("get_manufacturer_string", m.kind, <<>>, m.value),
                     Ev("get_product_string", p.kind, <<>>, p.value),
                     Ev("return", "get_product_name", <<>>, get_product_name(m, p))>>
    /\ pc' = "done"
    /\ UNCHANGED <<registry, handles, count_bytes_read_from_current_report,
                   read_failures, report_chunks, target, connected_devices, matched>>

\* speed_as_str on any speed
SpeedAsStr ==
    /\ pc = "idle"
    /\ \E speed \in Speeds :
          trace' = <<Ev("call", "speed_as_str", <<>>, <<speed>>),
                     Ev("return", "speed_as_str", <<speed_as_str(speed).pad>>,
                        <<speed_as_str(speed).text>>)>>
    /\ pc' = "done"
    /\ UNCHANGED <<registry, handles, count_bytes_read_from_current_report,
                   read_failures, report_chunks, target, connected_devices, matched>>

\* get_speed on any speed
GetSpeed ==
    /\ pc = "idle"
    /\ \E speed \in Speeds :
          trace' = <<Ev("call", "get_speed", <<>>, <<speed>>),
                     Ev("return", "get_speed", <<get_speed(speed).pad>>,
                        <<get_speed(speed).text>>)>>
    /\ pc' = "done"
    /\ UNCHANGED <<registry, handles, count_bytes_read_from_current_report,
                   read_failures, report_chunks, target, connected_devices, matched>>

InitTools ==
    /\ registry = <<>>
    /\ target = VidPid(INTERMEC_SG20.vid, INTERMEC_SG20.pid)
    /\ pc = "idle"
    /\ handles = 0
    /\ count_bytes_read_from_current_report = 0
    /\ trace = <<>>
    /\ read_failures = 0
    /\ report_chunks = <<>>
    /\ connected_devices = <<>>
    /\ matched = "none"

NextTools == GetProductName \/ SpeedAsStr \/ GetSpeed

SpecTools == InitTools /\ [][NextTools]_vars

-----------------------------------------------------------------------------
(* Reading the last step off the trace *)

LastReadOk == Has(trace, "read", "Ok")
LastReadErr == Has(trace, "read", "Err")
LastTick == \E i \in DOMAIN trace : trace[i].op = "refresh_devices"
Panicked == \E i \in DOMAIN trace : trace[i].op = "panic"

\* length of the chunk the last successful read returned
LastReadLen == trace[CHOOSE i \in DOMAIN trace : trace[i].op = "read"].arg[1]

\* the totals reported by report-completed events of the last step
ReportedTotals ==
    {trace[i].arg[1] : i \in {j \in DOMAIN trace :
        trace[j].op = "info" /\ trace[j].msg = "bytes read in total."}}

\* number of report-completed events of the last step
CompletedEvents ==
    Cardinality({i \in DOMAIN trace :
        trace[i].op = "info" /\ trace[i].msg = "Finished reading HID report."})

LogEvents == CountOp(trace, {"info", "debug"})
OpenAttempts == CountOp(trace, {"open_serial"})

\* all chunks but the last are continuation chunks, the last has terminator t
ContinuedThenTerminator(chunks, ts) ==
    /\ chunks # <<>>
    /\ \A i \in 1..(Len(chunks) - 1) : chunks[i].t = T_CONTINUE
    /\ chunks[Len(chunks)].t \in ts

\* no listed device has the session's vendor and product ids
NoCandidate(devices) ==
    \A i \in 1..Len(devices) :
        ~(devices[i].vendor_id = INTERMEC_SG20.vid /\ devices[i].product_id = INTERMEC_SG20.pid)

-----------------------------------------------------------------------------
(* C1 .. C10 *)

\* what section 4.1 asks of the match: equal ids, and the serial only if the
\* target has one
SemanticMatch(devices, id) ==
    \E i \in 1..Len(devices) :
        /\ devices[i].vendor_id = id.vid
        /\ devices[i].product_id = id.pid
        /\ (id.tag = "VidPid" \/ devices[i].serial_number = Some(id.sn))

C2_TotalCountsFinalChunk ==
    (/\ LastReadOk
     /\ Len(report_chunks) >= 2
     /\ ContinuedThenTerminator(report_chunks, {T_END})
     /\ \A i \in DOMAIN report_chunks : report_chunks[i].n >= 5)
    => ReportedTotals = {SumLen(report_chunks)}

\* C3: with the accumulator at 0, a single chunk of length L ending in 00 01 00
\* completes the report on that chunk with total exactly L, and the accumulator
\* is 0 afterwards.
C3_SingleChunkReport ==
    (/\ LastReadOk
     /\ Len(report_chunks) = 1
     /\ report_chunks[1].t = T_END_PAYLOAD)
    => (/\ ReportedTotals = {report_chunks[1].n}
        /\ CompletedEvents = 1
        /\ count_bytes_read_from_current_report = 0
        /\ pc = "read")

\* C4: for chunks c1..cn of which only cn ends in an end terminator and the
\* others in the continuation terminator, exactly one report-completed event
\* is emitted, when cn is processed and not before, and the accumulator is 0
\* right after cn.
C4_OneCompletionPerReport ==
    /\ (LastReadOk /\ ContinuedThenTerminator(report_chunks, {T_CONTINUE}))
        => CompletedEvents = 0
    /\ (LastReadOk /\ ContinuedThenTerminator(report_chunks, EndTerminators))
        => (/\ CompletedEvents = 1
            /\ count_bytes_read_from_current_report = 0)

\* C5: a successful read of fewer than 3 bytes is rejected as a framing
\* violation: the session does not crash and goes on to the next read.
C5_ShortReadRejected ==
    (LastReadOk /\ LastReadLen < 3) => (pc = "read" /\ ~Panicked /\ handles = 1)

\* C6: a successful read of 3 bytes or more, lengths 3 and 4 included, is
\* processed as a chunk without error or crash.
C6_ThreeBytesIsValid ==
    (LastReadOk /\ LastReadLen >= 3) => (pc = "read" /\ ~Panicked /\ handles = 1)

C10_NeverCrashes == pc \in {"connect", "read"}

-----------------------------------------------------------------------------
(* C11 .. C20 *)

\* positions of the last step's events that are a failed call
ErrorResults == {i \in DOMAIN trace : trace[i].msg = "Err"}

\* the event at position i of the last step is a log event
IsLog(i) == i \in DOMAIN trace /\ trace[i].op \in {"info", "debug"}

\* C11: every failed call of the session loop (refresh, open, read) is followed
\* by a log event that reports it before the loop's next I/O operation; no
\* error result is dropped without a log event.
C11_EveryErrorLogged == \A i \in ErrorResults : IsLog(i + 1)

ConnectedEvents ==
    {i \in DOMAIN trace : trace[i].op = "info" /\ trace[i].msg = "Connected to"}

\* C13: a successful open emits exactly one 'connected' event, which carries
\* the device name and comes after the open and before any read on the new
\* handle; a failed open emits none, and so does a turn of the read loop.
C13_OneConnectedEventPerOpen ==
    /\ Has(trace, "open_serial", "Ok")
        => /\ Cardinality(ConnectedEvents) = 1
           /\ \A i \in ConnectedEvents :
                /\ trace[i].text # <<>>
                /\ \E j \in 1..(i - 1) : trace[j] = Io("open_serial", "Ok", <<>>)
                /\ \A j \in DOMAIN trace : trace[j].op # "read"
           /\ pc = "read"
    /\ ~Has(trace, "open_serial", "Ok") => ConnectedEvents = {}

\* a successful open on a device that reports both of its strings
C13_Witness ==
    /\ Has(trace, "open_serial", "Ok")
    /\ \E i \in ConnectedEvents : trace[i].text = <<"Intermec", " ", "SG20">>

\* positions of the 'symbology' events of the last step
SymbologyEvents ==
    {i \in DOMAIN trace : trace[i].op = "debug" /\ trace[i].msg = "Symbology"}

\* the last step read the first chunk of a logical report, and the chunk has
\* bytes at offsets 2, 3 and 4
FirstChunkRead ==
    /\ LastReadOk
    /\ Len(report_chunks) = 1
    /\ report_chunks[1].sym # <<>>

\* the identifiers the lookup table names
KnownSymbology(s) == s \in {SYM_C1, SYM_E0} \/ (s[1] = 93 /\ s[2] = 100)

\* C14: the bytes 5D 43 31 at offsets 2, 3 and 4 of the first chunk of a report
\* are classified as Code128, and bytes there that the lookup table does not
\* name are classified as Unknown, which carries those bytes.
C14_ClassifiesFirstChunk ==
    FirstChunkRead =>
        LET sym == report_chunks[1].sym
        IN  /\ Cardinality(SymbologyEvents) = 1
            /\ \A i \in SymbologyEvents :
                 /\ sym = SYM_C1 => trace[i].text = <<"Code128">>
                 /\ ~KnownSymbology(sym)
                     => (trace[i].text = <<"Unknown">> /\ trace[i].arg = sym \o sym)

\* a first chunk with 5D 43 31 at offsets 2, 3 and 4 was classified
C14_Witness ==
    /\ FirstChunkRead
    /\ report_chunks[1].sym = SYM_C1
    /\ \E i \in SymbologyEvents : trace[i].text = <<"Code128">>

\* a first chunk with bytes the table does not name was classified
C14_WitnessUnknown ==
    /\ FirstChunkRead
    /\ report_chunks[1].sym = SYM_NONE
    /\ \E i \in SymbologyEvents : trace[i].text = <<"Unknown">>

\* positions of the read calls of the last step
ReadCalls == {i \in DOMAIN trace : trace[i].op = "read"}

\* C15: reads on a handle are strictly sequential: a turn of the read loop
\* issues one read, on the one open handle, and has its result before it does
\* anything else; no read is left outstanding when the next is issued.
C15_ReadsSequential ==
    /\ Cardinality(ReadCalls) <= 1
    /\ \A i \in ReadCalls :
         /\ trace[i].msg \in {"Ok", "Err"}
         /\ i > 1
         /\ trace[i - 1] = Info("Waiting for device to send data...", <<>>)
    /\ pc = "read" => handles = 1

\* a second read on the same handle, issued after the first returned
C15_Witness ==
    /\ LastReadOk
    /\ Len(report_chunks) >= 2
    /\ pc = "read"

\* C16: the symbology shown while a logical report is assembled is that of
\* bytes [2, 5) of the report's first chunk, whatever bytes a continuation or
\* final chunk holds there.
C16_SymbologyFromFirstChunk ==
    (LastReadOk /\ ~Panicked /\ Len(report_chunks) >= 2)
    => \A i \in SymbologyEvents :
         Slice(trace[i].arg, 0, 3) = report_chunks[1].sym

\* the chunk the last successful read returned, as the history holds it
LastChunk == report_chunks[Len(report_chunks)]

UnknownTerminatorRead ==
    /\ LastReadOk
    /\ LastChunk.t \notin {<<>>, T_CONTINUE, T_END, T_END_PAYLOAD}

\* C18: a chunk whose last 3 bytes are none of the three terminators is flagged
\* by a log event, its length is added to the accumulator, no report-completed
\* event is emitted and the accumulator is not reset: the report stays in
\* progress.
C18_UnknownTerminatorFlagged ==
    UnknownTerminatorRead
    => /\ Has(trace, "info", "Unknown termination bytes")
       /\ count_bytes_read_from_current_report = SumLen(report_chunks)
       /\ CompletedEvents = 0
       /\ pc = "read"

\* a wait is the last thing the step did but for dropping the handle: no open
\* attempt follows the wait
EndsWithWait(t) ==
    \E k \in DOMAIN t :
        /\ t[k].op = "sleep"
        /\ \A j \in (k + 1)..Len(t) : t[j].op # "open_serial"

\* C19: two open attempts never occur without a wait and a fresh registry
\* refresh between them: a turn that attempts an open starts from a state
\* whose last step, if there was one, ended with exactly one wait, and the
\* registry refresh is the call right before the open attempt.
C19_WaitAndRefreshBetweenOpens ==
    [][(\E i \in DOMAIN trace' : trace'[i].op = "open_serial")
       => /\ pc = "connect"
          /\ trace = <<>> \/ (EndsWithWait(trace) /\ CountOp(trace, {"sleep"}) = 1)
          /\ CountOp(trace', {"open_serial"}) = 1
          /\ \A i \in DOMAIN trace' :
               trace'[i].op = "open_serial"
               => (i > 1 /\ trace'[i - 1].op = "refresh_devices")]_vars

\* an open attempt has failed and the turn ended with the wait
C19_Witness ==
    /\ \E i \in DOMAIN trace :
         /\ trace[i] = Io("open_serial", "Err", <<>>)
         /\ trace[i - 1].op = "refresh_devices"
    /\ trace[Len(trace)].op = "sleep"
    /\ pc = "connect"

\* C20: after a failed read the handle is dropped first and the wait comes
\* after: the handle is not held open during the wait.
C20_DropBeforeWait ==
    LastReadErr
    => \A i, j \in DOMAIN trace :
         (trace[i].op = "close" /\ trace[j].op = "sleep") => i < j

-----------------------------------------------------------------------------
(* C21 .. C27 *)

\* the durations, in seconds, of the waits of a step
Waits(t) == {t[i].arg[1] : i \in {j \in DOMAIN t : t[j].op = "sleep"}}

Shown(query) ==
    IF query.msg = "Err" THEN query.text[1]
    ELSE IF query.text = <<>> THEN "NA"
    ELSE query.text[1]

\* get_product_name has returned
NameReturned ==
    /\ Len(trace) = 3
    /\ trace[3].op = "return"
    /\ trace[3].msg = "get_product_name"

\* C22: the device name is the manufacturer part, one space, the product part;
\* each part is the device's string when its query returns one, "NA" when the
\* query succeeds with no string and the error's description when it fails,
\* whatever the other query returned.
C22_NameOfParts ==
    NameReturned
    => trace[3].text = <<Shown(trace[1]), " ", Shown(trace[2])>>

\* the manufacturer query failed and the product query returned a string
C22_Witness ==
    /\ NameReturned
    /\ trace[1].msg = "Err"
    /\ trace[2].msg = "Ok"
    /\ trace[3].text = <<"HidApiError", " ", "SG20">>

\* the data rate of each speed
DataRate(speed) ==
    CASE speed = "Low" -> "1.5 Mbps"
      [] speed = "Full" -> "12 Mbps"
      [] speed = "High" -> "480 Mbps"
      [] speed = "Super" -> "5000 Mbps"
      [] speed = "Unknown" -> "(unknown)"

\* C23: speed_as_str gives each speed its data rate, the text get_speed gives
\* it too: Low 1.5 Mbps, Full 12 Mbps, High 480 Mbps, Super 5000 Mbps,
\* Unknown '(unknown)'.
C23_SpeedAsStrIsDataRate ==
    \A i \in DOMAIN trace :
        (trace[i].op = "return" /\ trace[i].msg = "speed_as_str")
        => LET speed == trace[i - 1].text[1]
           IN  /\ trace[i].text = <<DataRate(speed)>>
               /\ trace[i].text = <<get_speed(speed).text>>

\* C24: refresh_devices returns one identifier per attached device, in
\* enumeration order, with the device's vendor and product ids: VidPid iff the
\* device reports no serial number, else VidPidSn with that serial, an empty
\* one included.
C24_OneIdentifierPerDevice ==
    matched # "none"
    => /\ Len(connected_devices) = Len(registry)
       /\ \A i \in DOMAIN registry :
            LET d == registry[i]
                id == connected_devices[i]
            IN  /\ id.vid = d.vendor_id
                /\ id.pid = d.product_id
                /\ id.tag = "VidPid" <=> d.serial_number = None
                /\ d.serial_number # None
                    => (id.tag = "VidPidSn" /\ id.sn = d.serial_number[1])

\* two devices were listed, the first with an empty serial number and the
\* second with none
C24_Witness ==
    /\ matched # "none"
    /\ Len(registry) = 2
    /\ registry[1].serial_number = Some("")
    /\ registry[2].serial_number = None
    /\ connected_devices[1].tag = "VidPidSn"
    /\ connected_devices[2].tag = "VidPid"

\* the sum of the lengths of the chunks read on the connection since the last
\* end-terminator chunk
SinceLastEnd == IF ReportEnded(report_chunks) THEN 0 ELSE SumLen(report_chunks)

\* C25: while a connection is up the accumulator is the sum of the lengths of
\* the chunks read on it since the last end-terminator chunk, or since it was
\* opened; from one read to the next it never gets smaller but by being reset
\* to 0 at an end terminator.
C25_AccumulatorIsSumSinceLastEnd ==
    /\ [](pc = "read" => count_bytes_read_from_current_report = SinceLastEnd)
    /\ [][(/\ pc = "read"
           /\ pc' = "read"
           /\ count_bytes_read_from_current_report'
                < count_bytes_read_from_current_report)
          => (/\ count_bytes_read_from_current_report' = 0
              /\ ReportEnded(report_chunks'))]_vars

\* a report in progress: a continuation chunk and a chunk with an unknown
\* terminator have been counted
C25_Witness ==
    /\ pc = "read"
    /\ Len(report_chunks) = 2
    /\ report_chunks[1].t = T_CONTINUE
    /\ report_chunks[2].t = T_OTHER
    /\ count_bytes_read_from_current_report = SumLen(report_chunks)

\* C26: framing state does not survive a reconnect: losing the device emits no
\* report-completed event, whatever has been accumulated; every new connection
\* starts with the accumulator at 0, so the first chunk read on it is counted
\* from 0.
C26_NothingSurvivesReconnect ==
    /\ [](LastReadErr => (CompletedEvents = 0 /\ ReportedTotals = {}))
    /\ [][Has(trace', "open_serial", "Ok")
          => (/\ count_bytes_read_from_current_report' = 0
              /\ pc' = "read")]_vars
    /\ []((LastReadOk /\ ~Panicked /\ Len(report_chunks) = 1)
          => /\ count_bytes_read_from_current_report \in {0, LastChunk.n}
             /\ ReportedTotals \subseteq {0, LastChunk.n})

\* the device was lost with a report partly accumulated
C26_Witness ==
    /\ LastReadErr
    /\ count_bytes_read_from_current_report > 0
    /\ CompletedEvents = 0
    /\ pc = "connect"

\* C27: at most one device handle is open at any time: no handle is open when
\* an open is attempted, the handle of the connection before having been
\* dropped.
C27_AtMostOneHandle ==
    /\ [](handles <= 1)
    /\ [][(\E i \in DOMAIN trace' : trace'[i].op = "open_serial")
          => handles = 0]_vars
    /\ []((LastReadErr /\ pc = "connect")
          => (Has(trace, "close", "drop") /\ handles = 0))

\* a connection has ended and its handle is dropped: the loop is about to
\* attempt the next open
C27_Witness ==
    /\ LastReadErr
    /\ Has(trace, "close", "drop")
    /\ handles = 0
    /\ pc = "connect"

====
